---- MODULE Spec2Model ----
(***************************************************************************)
(* WakeVoter: the voter-ranking notebook (Calculate-Voter-MECE-Rank.ipynb) *)
(* and the Census batch geocoding notebook (Census-Batch-GeoCode.ipynb).   *)
(*                                                                         *)
(* A notebook cell is one action; the cells run top to bottom.  The        *)
(* geocoding loop is split at its file and network operations.             *)
(***************************************************************************)
EXTENDS Integers, Sequences, FiniteSets, TLC

(***************************************************************************)
(* Bounds of the model.                                                    *)
(***************************************************************************)
\* distinct voter ids (ncid) in the history file
NumVoters == 2
\* rows of the history file
MaxHist == 6
\* rows of a participation matrix handed directly to the tier cells
MaxRows == 1
\* largest record count in a cell of such a matrix
MaxCount == 2
\* rows of the voter file when only the chunk arithmetic is followed
MaxRecs == 12345
\* rows of the voter file when file contents and failures are followed
MaxGeoRecs == 1002
\* rows at the start of each block of ChunkSize rows that may hold a NaN
MaxProbe == 1
\* rows of the voter file that is joined to the address points
MaxVoterRows == 2
\* address points that share one address key
MaxPoints == 2
\* rows of the history frame
MaxHistRows == 3

(***************************************************************************)
(* Program constants.                                                      *)
(***************************************************************************)
\* toID = fromID+1000
ChunkSize == 1000
\* toID = fromID + 10000
LoopStep == 10000
\* pd.read_csv('GeoCode_1000.csv', ...)
ReadID == 1000

\* elections = ('10/10/2017','11/07/2017','11/06/2018','11/08/2016','11/06/2012')
elections == <<"10/10/2017", "11/07/2017", "11/06/2018", "11/08/2016", "11/06/2012">>

\* election_lbl values of the history file: the tracked ones and one other
\* (11/04/2014 is in the file's first rows), in the sort order of the labels
Labels == <<"10/10/2017", "11/04/2014", "11/06/2012", "11/06/2018", "11/07/2017", "11/08/2016">>

\* the short names of dfPivot.rename, in the sort order of the labels they replace
ShortNames == <<"Oct17", "Nov12", "Nov18", "Nov17", "Nov16">>

Voters == 1..NumVoters

Range(s) == {s[i] : i \in DOMAIN s}

Min(a, b) == IF a < b THEN a ELSE b

RECURSIVE SumOver(_, _)
SumOver(f, S) ==
    IF S = {} THEN 0
    ELSE LET x == CHOOSE y \in S : TRUE IN f[x] + SumOver(f, S \ {x})

RECURSIVE SortedSeq(_)
SortedSeq(S) ==
    IF S = {} THEN <<>>
    ELSE LET m == CHOOSE x \in S : \A y \in S : x <= y
         IN <<m>> \o SortedSeq(S \ {m})

VARIABLES
    \* ---- Calculate-Voter-MECE-Rank.ipynb ----
    pcRank,     \* the next cell of the ranking notebook
    df,         \* the history rows: (ncid, election_lbl) -> number of rows
    dfSubset,   \* the rows of the tracked elections
    dfPivot,    \* [index, columns, data]: the participation matrix
    filters,    \* [e12, e16, e17, e18]: the boolean row masks
    MECE,       \* the MECE column: ncid -> tier
    hits,       \* ncid -> number of masked assignments that wrote the row
    unassigned, \* the rows shown by dfPivot[dfPivot.MECE < 0]
    \* ---- Census-Batch-GeoCode.ipynb ----
    pcGeo,      \* the next statement of the geocoding notebook
    dfAll,      \* the voter file: [rows, naAddr, naOther]
    numRecs,    \* dfAll.shape[0]
    fromID,
    toID,
    address_set, \* the rows of the current chunk after dropna
    AddressesCsv, \* the content of Addresses.csv
    outFile,    \* the id in the name GeoCode_<id>.csv
    r,          \* the response of requests.post
    geoFiles,   \* id -> content of GeoCode_<id>.csv
    dfGeo,      \* the data frame read back from GeoCode_1000.csv
    chunks,     \* the iterations so far: [from, to, sent, outcome]
    tasks,      \* the chunks when their steps interleave: chunk number ->
                \* [pc, from, to, address_set, outFile, r, sent, outcome]
    \* ---- Geocode-NCSBE-Data.ipynb and the join cells of the ranking notebook ----
    pcJoin,     \* the next cell of the join
    dfVoter,    \* the voter rows: [voter_reg_num, res_street_address], then with addr
    dfAddresses, \* address key -> number of address points with that key
    dfX,        \* the voter rows with the coordinates joined to them
    geoCsv,     \* the content of ncvoter_Wake_geo.csv
    dfHistWake, \* the history frame in the kernel of the ranking notebook:
                \* [bound, rows], the rows [voter_reg_num, voted_party_cd]
    dfWakeDems, \* the party's rows of dfHistWake
    dfVoteCount, \* the tally: [index, voter_reg_num]
    dfVoteGeo2  \* the tally joined to the geocoded voters

rankVars == <<pcRank, df, dfSubset, dfPivot, filters, MECE, hits, unassigned>>
geoVars == <<pcGeo, dfAll, numRecs, fromID, toID, address_set, AddressesCsv,
             outFile, r, geoFiles, dfGeo, chunks, tasks>>
joinVars == <<pcJoin, dfVoter, dfAddresses, dfX, geoCsv, dfHistWake, dfWakeDems,
              dfVoteCount, dfVoteGeo2>>
vars == <<pcRank, df, dfSubset, dfPivot, filters, MECE, hits, unassigned,
          pcGeo, dfAll, numRecs, fromID, toID, address_set, AddressesCsv,
          outFile, r, geoFiles, dfGeo, chunks, tasks,
          pcJoin, dfVoter, dfAddresses, dfX, geoCsv, dfHistWake, dfWakeDems,
          dfVoteCount, dfVoteGeo2>>

(***************************************************************************)
(* Calculate-Voter-MECE-Rank.ipynb                                         *)
(***************************************************************************)
Pairs == Voters \X Range(Labels)

EmptyFrame == [p \in Pairs |-> 0]

NoPivot == [index |-> <<>>, columns |-> <<>>, data |-> <<>>]

NoFilters == [e12 |-> {}, e16 |-> {}, e17 |-> {}, e18 |-> {}]

\* df.loc[df.election_lbl.isin(elections),:]
SubsetAll(frame) == frame
Subset(frame) ==
    [p \in DOMAIN frame |-> IF p[2] \in Range(elections) THEN frame[p] ELSE 0]

\* aggfunc = 'count': the number of rows of the group (county_desc is never
\* null in the county extract)
AggCount(n) == n

\* pd.pivot_table(dfSubset, columns='election_lbl', index='ncid',
\*                aggfunc='count', fill_value=0).droplevel(level=0,axis=1)
PivotTable(frame) ==
    LET ids == {v \in Voters : \E l \in Range(Labels) : frame[<<v, l>>] > 0}
        Present(l) == \E v \in Voters : frame[<<v, l>>] > 0
        cols == SelectSeq(Labels, Present)
    IN [index |-> SortedSeq(ids),
        columns |-> cols,
        data |-> [v \in ids |-> [l \in Range(cols) |-> AggCount(frame[<<v, l>>])]]]

\* the dictionary of dfPivot.rename(..., axis=1)
RenameMap(l) ==
    CASE l = "10/10/2017" -> "Oct17"
      [] l = "11/06/2012" -> "Nov12"
      [] l = "11/06/2018" -> "Nov18"
      [] l = "11/07/2017" -> "Nov17"
      [] l = "11/08/2016" -> "Nov16"
      [] OTHER -> l

Rename(p) ==
    LET old(c) == CHOOSE l \in Range(p.columns) : RenameMap(l) = c
        cols == [i \in DOMAIN p.columns |-> RenameMap(p.columns[i])]
    IN [index |-> p.index,
        columns |-> cols,
        data |-> [v \in DOMAIN p.data |-> [c \in Range(cols) |-> p.data[v][old(c)]]]]

Rows(p) == Range(p.index)

\* dfPivot.<column> == 1
Voted(p, c) == {v \in Rows(p) : p.data[v][c] = 1}

\* the five masks of the assignment cell, in the order of its statements
MasksFlat(p, f) ==
    LET all == Rows(p)
    IN <<f.e17,
         f.e18,
         (all \ f.e17) \cap (all \ f.e18) \cap f.e16,
         (all \ f.e17) \cap (all \ f.e18) \cap (all \ f.e16) \cap f.e12,
         (all \ f.e17) \cap (all \ f.e18) \cap (all \ f.e16) \cap (all \ f.e12)>>
MasksSwapped(p, f) ==
    LET all == Rows(p)
    IN <<f.e17,
         (all \ f.e17) \cap (all \ f.e16) \cap f.e18,
         (all \ f.e17) \cap f.e16,
         (all \ f.e17) \cap (all \ f.e18) \cap (all \ f.e16) \cap f.e12,
         (all \ f.e17) \cap (all \ f.e18) \cap (all \ f.e16) \cap (all \ f.e12)>>
Masks(p, f) ==
    LET all == Rows(p)
    IN <<f.e17,
         (all \ f.e17) \cap f.e18,
         (all \ f.e17) \cap (all \ f.e18) \cap f.e16,
         (all \ f.e17) \cap (all \ f.e18) \cap (all \ f.e16) \cap f.e12,
         (all \ f.e17) \cap (all \ f.e18) \cap (all \ f.e16) \cap (all \ f.e12)>>

\* dfPivot.loc[mask, "MECE"] = value
Loc(col, mask, value) == [v \in DOMAIN col |-> IF v \in mask THEN value ELSE col[v]]

RECURSIVE AssignFrom(_, _, _)
AssignFrom(col, masks, k) ==
    IF k > Len(masks) THEN col
    ELSE AssignFrom(Loc(col, masks[k], k), masks, k + 1)

----
\* one more row of wake_history.csv
HistoryRow ==
    /\ pcRank = "read"
    /\ SumOver(df, Pairs) < MaxHist
    /\ \E v \in Voters, l \in Range(Labels) : df' = [df EXCEPT ![<<v, l>>] = @ + 1]
    /\ UNCHANGED <<pcRank, dfSubset, dfPivot, filters, MECE, hits, unassigned>>
    /\ UNCHANGED geoVars
    /\ UNCHANGED joinVars

SubsetElections ==
    /\ pcRank = "read"
    /\ dfSubset' = Subset(df)
    /\ pcRank' = "subset"
    /\ UNCHANGED <<df, dfPivot, filters, MECE, hits, unassigned>>
    /\ UNCHANGED geoVars
    /\ UNCHANGED joinVars

Pivot ==
    /\ pcRank = "subset"
    /\ dfPivot' = PivotTable(dfSubset)
    /\ pcRank' = "pivoted"
    /\ UNCHANGED <<df, dfSubset, filters, MECE, hits, unassigned>>
    /\ UNCHANGED geoVars
    /\ UNCHANGED joinVars

RenameColumns ==
    /\ pcRank = "pivoted"
    /\ dfPivot' = Rename(dfPivot)
    /\ pcRank' = "renamed"
    /\ UNCHANGED <<df, dfSubset, filters, MECE, hits, unassigned>>
    /\ UNCHANGED geoVars
    /\ UNCHANGED joinVars

\* e12 = dfPivot.Nov12 == 1; e16 = ...; e17 = ...; e18 = ...: the statements
\* run in this order; a column no history row names is no attribute of
\* dfPivot, and the cell stops there with an AttributeError, the filters of
\* the statements before it bound
Filters ==
    /\ pcRank = "renamed"
    /\ LET cols == Range(dfPivot.columns)
           ok12 == "Nov12" \in cols
           ok16 == ok12 /\ "Nov16" \in cols
           ok17 == ok16 /\ "Oct17" \in cols /\ "Nov17" \in cols
           ok18 == ok17 /\ "Nov18" \in cols
       IN /\ filters' =
                [e12 |-> IF ok12 THEN Voted(dfPivot, "Nov12") ELSE filters.e12,
                 e16 |-> IF ok16 THEN Voted(dfPivot, "Nov16") ELSE filters.e16,
                 e17 |-> IF ok17
                         THEN Voted(dfPivot, "Oct17") \cup Voted(dfPivot, "Nov17")
                         ELSE filters.e17,
                 e18 |-> IF ok18 THEN Voted(dfPivot, "Nov18") ELSE filters.e18]
          /\ pcRank' = IF ok18 THEN "filtered" ELSE "error"
    /\ UNCHANGED <<df, dfSubset, dfPivot, MECE, hits, unassigned>>
    /\ UNCHANGED geoVars
    /\ UNCHANGED joinVars

AssignMECE ==
    /\ pcRank = "filtered"
    /\ LET masks == Masks(dfPivot, filters)
           init == [v \in Rows(dfPivot) |-> -1]
       IN /\ MECE' = AssignFrom(init, masks, 1)
          /\ hits' = [v \in Rows(dfPivot) |->
                         Cardinality({k \in DOMAIN masks : v \in masks[k]})]
    /\ pcRank' = "assigned"
    /\ UNCHANGED <<df, dfSubset, dfPivot, filters, unassigned>>
    /\ UNCHANGED geoVars
    /\ UNCHANGED joinVars

\* dfPivot[dfPivot.MECE < 0]
CheckUnassigned ==
    /\ pcRank = "assigned"
    /\ unassigned' = {v \in Rows(dfPivot) : MECE[v] < 0}
    /\ pcRank' = "checked"
    /\ UNCHANGED <<df, dfSubset, dfPivot, filters, MECE, hits>>
    /\ UNCHANGED geoVars
    /\ UNCHANGED joinVars

(***************************************************************************)
(* Census-Batch-GeoCode.ipynb                                              *)
(*                                                                         *)
(* A file or frame of consecutive rows is [lo, hi, omit]: the rows         *)
(* lo..hi-1 of dfAll without the rows of omit.                             *)
(***************************************************************************)
NoFile == [lo |-> 0, hi |-> 0, omit |-> {}]

NoResponse == [status |-> "none", rows |-> NoFile]

InFile(f, x) == f.lo <= x /\ x < f.hi /\ x \notin f.omit

\* rows of a frame of m rows that may hold a NaN
ProbeRows(m) ==
    {x \in {b * ChunkSize + o : b \in 0..(m \div ChunkSize), o \in 0..(MaxProbe - 1)} : x < m}

\* dfAll.iloc[from:to, 1:-2]: the slice stops at the last row; only a NaN of
\* the selected columns is still in the slice
IlocAllColumns(frame, from, to) ==
    LET lo == Min(from, frame.rows)
        hi == Min(to, frame.rows)
    IN [lo |-> lo, hi |-> hi,
        na |-> {x \in frame.naAddr \cup frame.naOther : lo <= x /\ x < hi}]
Iloc(frame, from, to) ==
    LET lo == Min(from, frame.rows)
        hi == Min(to, frame.rows)
    IN [lo |-> lo, hi |-> hi, na |-> {x \in frame.naAddr : lo <= x /\ x < hi}]

\* .dropna(how='any')
DropNa(slice) == [lo |-> slice.lo, hi |-> slice.hi, omit |-> slice.na]

\* fromID = toID
NextFromSkip(t) == t + 1
NextFrom(t) == t

\* toID = fromID + 10000
NextToStuck(f) == f
NextTo(f) == f + LoopStep

\* what requests.post does with the uploaded file
Outcomes == {"ok", "bad", "raise"}

SetLast(s, x) == [s EXCEPT ![Len(s)] = x]

----
\* fromID = 0; toID = fromID+1000
StartLoop ==
    /\ pcGeo = "start"
    /\ fromID' = 0
    /\ toID' = fromID' + ChunkSize
    /\ pcGeo' = "loop"
    /\ UNCHANGED <<dfAll, numRecs, address_set, AddressesCsv, outFile, r, geoFiles,
                   dfGeo, chunks>>
    /\ UNCHANGED tasks
    /\ UNCHANGED rankVars
    /\ UNCHANGED joinVars

\* while fromID < numRecs: slice, dropna, to_csv('Addresses.csv'), outFile
WriteAddresses ==
    /\ pcGeo = "loop"
    /\ fromID < numRecs
    /\ address_set' = DropNa(Iloc(dfAll, fromID, toID))
    /\ AddressesCsv' = address_set'
    /\ outFile' = toID
    /\ chunks' = Append(chunks, [from |-> fromID, to |-> toID, sent |-> NoFile,
                                 outcome |-> "pending"])
    /\ pcGeo' = "post"
    /\ UNCHANGED <<dfAll, numRecs, fromID, toID, r, geoFiles, dfGeo>>
    /\ UNCHANGED tasks
    /\ UNCHANGED rankVars
    /\ UNCHANGED joinVars

\* the loop condition is false
ExitLoop ==
    /\ pcGeo = "loop"
    /\ ~(fromID < numRecs)
    /\ pcGeo' = "done"
    /\ UNCHANGED <<dfAll, numRecs, fromID, toID, address_set, AddressesCsv, outFile,
                   r, geoFiles, dfGeo, chunks>>
    /\ UNCHANGED tasks
    /\ UNCHANGED rankVars
    /\ UNCHANGED joinVars

\* censusGeocode: files = {'addressFile': open(file)}; r = requests.post(...)
\* The service answers with one row for each row of the file ("ok") or with
\* another text ("bad"); a connection error or timeout raises, and nothing
\* in the notebook catches it.
Request(o) ==
    /\ pcGeo = "post"
    /\ chunks' = SetLast(chunks, [chunks[Len(chunks)] EXCEPT
                                     !.sent = AddressesCsv, !.outcome = o])
    /\ IF o = "raise"
       THEN /\ pcGeo' = "aborted"
            /\ UNCHANGED r
       ELSE /\ r' = [status |-> o, rows |-> IF o = "ok" THEN AddressesCsv ELSE NoFile]
            /\ pcGeo' = "write"
    /\ UNCHANGED <<dfAll, numRecs, fromID, toID, address_set, AddressesCsv, outFile,
                   geoFiles, dfGeo>>
    /\ UNCHANGED tasks
    /\ UNCHANGED rankVars
    /\ UNCHANGED joinVars

\* censusGeocode: the rows of r.text are written to the output file
WriteResult ==
    /\ pcGeo = "write"
    /\ geoFiles' = [k \in DOMAIN geoFiles \cup {outFile} |->
                       IF k = outFile THEN r ELSE geoFiles[k]]
    /\ pcGeo' = "advance"
    /\ UNCHANGED <<dfAll, numRecs, fromID, toID, address_set, AddressesCsv, outFile,
                   r, dfGeo, chunks>>
    /\ UNCHANGED tasks
    /\ UNCHANGED rankVars
    /\ UNCHANGED joinVars

\* fromID = toID; toID = fromID + 10000
UpdateCounters ==
    /\ pcGeo = "advance"
    /\ fromID' = NextFrom(toID)
    /\ toID' = NextTo(fromID')
    /\ pcGeo' = "loop"
    /\ UNCHANGED <<dfAll, numRecs, address_set, AddressesCsv, outFile, r, geoFiles,
                   dfGeo, chunks>>
    /\ UNCHANGED tasks
    /\ UNCHANGED rankVars
    /\ UNCHANGED joinVars

\* df = pd.read_csv('GeoCode_1000.csv', header=None, names=names, dtype=dtypes)
\* A missing file raises; a file that does not hold response rows is read as
\* it is or raises, depending on its text.
ReadOutput ==
    /\ pcGeo = "done"
    /\ \/ /\ ReadID \in DOMAIN geoFiles
          /\ dfGeo' = <<geoFiles[ReadID]>>
          /\ pcGeo' = "read"
       \/ /\ IF ReadID \in DOMAIN geoFiles
             THEN geoFiles[ReadID].status = "bad"
             ELSE TRUE
          /\ pcGeo' = "readfail"
          /\ UNCHANGED dfGeo
    /\ UNCHANGED <<dfAll, numRecs, fromID, toID, address_set, AddressesCsv, outFile,
                   r, geoFiles, chunks>>
    /\ UNCHANGED tasks
    /\ UNCHANGED rankVars
    /\ UNCHANGED joinVars

(***************************************************************************)
\* the ranges the loop gives to its iterations for a frame of m rows
RECURSIVE LoopRanges(_, _, _)
LoopRanges(f, t, m) ==
    IF f < m
    THEN <<[from |-> f, to |-> t]>> \o LoopRanges(NextFrom(t), NextTo(NextFrom(t)), m)
    ELSE <<>>

\* the chunks of the loop before any of their steps has run
NewTasks(m) ==
    LET rg == LoopRanges(0, 0 + ChunkSize, m)
    IN [k \in DOMAIN rg |->
           [pc |-> "slice", from |-> rg[k].from, to |-> rg[k].to, address_set |-> NoFile,
            outFile |-> 0, r |-> NoResponse, sent |-> NoFile, outcome |-> "pending"]]

\* the steps of the loop body for chunk k, free to interleave with the steps
\* of the other chunks
\* address_set = ...; address_set.to_csv('Addresses.csv'.format(fromID), ...);
\* outFile = 'GeoCode_{}.csv'.format(toID)
TaskWriteAddresses(k) ==
    /\ pcGeo = "parallel"
    /\ tasks[k].pc = "slice"
    /\ LET set == DropNa(Iloc(dfAll, tasks[k].from, tasks[k].to))
       IN /\ AddressesCsv' = set
          /\ tasks' = [tasks EXCEPT ![k].address_set = set, ![k].outFile = tasks[k].to,
                                    ![k].pc = "post"]
    /\ UNCHANGED <<pcGeo, dfAll, numRecs, fromID, toID, address_set, outFile, r,
                   geoFiles, dfGeo, chunks>>
    /\ UNCHANGED rankVars
    /\ UNCHANGED joinVars

\* censusGeocode('Addresses.csv', outFile): open(file) and requests.post
TaskRequest(k, o) ==
    /\ pcGeo = "parallel"
    /\ tasks[k].pc = "post"
    /\ tasks' = [tasks EXCEPT
                    ![k].sent = AddressesCsv,
                    ![k].outcome = o,
                    ![k].r = IF o = "raise" THEN @
                             ELSE [status |-> o,
                                   rows |-> IF o = "ok" THEN AddressesCsv ELSE NoFile],
                    ![k].pc = IF o = "raise" THEN "aborted" ELSE "write"]
    /\ UNCHANGED <<pcGeo, dfAll, numRecs, fromID, toID, address_set, AddressesCsv,
                   outFile, r, geoFiles, dfGeo, chunks>>
    /\ UNCHANGED rankVars
    /\ UNCHANGED joinVars

\* censusGeocode: the rows of r.text are written to the chunk's output file
TaskWriteResult(k) ==
    /\ pcGeo = "parallel"
    /\ tasks[k].pc = "write"
    /\ geoFiles' = [f \in DOMAIN geoFiles \cup {tasks[k].outFile} |->
                       IF f = tasks[k].outFile THEN tasks[k].r ELSE geoFiles[f]]
    /\ tasks' = [tasks EXCEPT ![k].pc = "done"]
    /\ UNCHANGED <<pcGeo, dfAll, numRecs, fromID, toID, address_set, AddressesCsv,
                   outFile, r, dfGeo, chunks>>
    /\ UNCHANGED rankVars
    /\ UNCHANGED joinVars

(***************************************************************************)
(* Geocode-NCSBE-Data.ipynb and the join cells of the ranking notebook.    *)
(*                                                                         *)
(* A field that pandas fills with NaN is the empty set; a field with a     *)
(* value is the set of that value.                                         *)
(***************************************************************************)
\* the voter registration numbers of the files
Ids == {1, 2, 3}

Parties == {"DEM", "REP"}

\* res_street_address as the words x.split() gives
StreetTexts == {<<"1", "MAIN", "ST", "APT">>, <<"2", "OAK", "AVE">>, <<"REMOVED">>}

\* the values of the column res_street_address: NaN or a text
Streets == {{}} \cup {{t} : t \in StreetTexts}

\* the values of the join key (st_address, city, zip) of the address points
Addrs == {<<"1", "MAIN", "ST">>, <<"9", "ELM", "RD">>}

\* lambda x: "{} {} {}".format(x.split()[0], x.split()[1], x.split()[2]):
\* NaN has no split (AttributeError), fewer than three words have no third
\* (IndexError)
CanClean(x) == x # {} /\ \A t \in x : Len(t) >= 3

CleanStreet(x) == LET t == CHOOSE w \in x : TRUE IN <<t[1], t[2], t[3]>>

\* dfVoter['addr'] = dfVoter.res_street_address.apply(...)
WithAddr(voters) ==
    [i \in DOMAIN voters |->
        [voter_reg_num |-> voters[i].voter_reg_num,
         res_street_address |-> voters[i].res_street_address,
         addr |-> CleanStreet(voters[i].res_street_address)]]

RECURSIVE Flatten(_)
\* the rows of the groups, group after group
Flatten(groups) ==
    IF groups = <<>> THEN <<>> ELSE Head(groups) \o Flatten(Tail(groups))

\* pd.merge(left=dfVoter, right=dfAddresses, how='left', left_on=[...], right_on=[...]):
\* a voter row is repeated for each address point of its key and kept, with
\* NaN coordinates, when there is none
MergeLeft(voters, addresses) ==
    LET Points(row) ==
           IF row.addr \in DOMAIN addresses THEN addresses[row.addr] ELSE 0
        With(row, p) ==
           [voter_reg_num |-> row.voter_reg_num,
            res_street_address |-> row.res_street_address,
            addr |-> row.addr, point |-> p]
        Match(row) ==
           IF Points(row) = 0
           THEN <<With(row, {})>>
           ELSE [k \in 1..Points(row) |-> With(row, {k})]
    IN Flatten([i \in DOMAIN voters |-> Match(voters[i])])

\* dfHistWake[dfHistWake.voted_party_cd == 'DEM']
SelectParty(rows) ==
    LET IsDem(row) == row.voted_party_cd = "DEM"
    IN SelectSeq(rows, IsDem)

\* pd.DataFrame(dfWakeDems['voter_reg_num'].value_counts()).reset_index():
\* one row for each number that occurs, the number in the column 'index' and
\* its count in the column 'voter_reg_num', the larger count first.  The order
\* of equal counts is left to the sort of the pandas in use: every order is a
\* possible frame.
ValueCounts(rows) ==
    LET Count(v) == Cardinality({i \in DOMAIN rows : rows[i].voter_reg_num = v})
        present == {v \in Ids : Count(v) > 0}
        n == Cardinality(present)
        orders == {s \in [1..n -> present] :
                     \A i, j \in 1..n : i < j => (s[i] # s[j] /\ Count(s[i]) >= Count(s[j]))}
    IN {[i \in 1..n |-> [index |-> s[i], voter_reg_num |-> Count(s[i])]] : s \in orders}

\* pd.merge(dfVoteGeo, dfVoteCount, how='right', left_on='voter_reg_num', right_on='index'):
\* for each row of the tally, a row for each geocoded row of that voter, or
\* one row with NaN in the geocode fields
MergeInner(geo, counts) ==
    LET Match(c) ==
           LET Same(g) == g.voter_reg_num = c.index
               hit == SelectSeq(geo, Same)
           IN [k \in DOMAIN hit |->
                  [voter_reg_num_x |-> {hit[k].voter_reg_num}, point |-> hit[k].point,
                   index |-> c.index,
                   voter_reg_num_y |-> c.voter_reg_num]]
    IN Flatten([i \in DOMAIN counts |-> Match(counts[i])])
MergeRight(geo, counts) ==
    LET Match(c) ==
           LET Same(g) == g.voter_reg_num = c.index
               hit == SelectSeq(geo, Same)
           IN IF hit = <<>>
              THEN <<[voter_reg_num_x |-> {}, point |-> {},
                      index |-> c.index, voter_reg_num_y |-> c.voter_reg_num]>>
              ELSE [k \in DOMAIN hit |->
                      [voter_reg_num_x |-> {hit[k].voter_reg_num}, point |-> hit[k].point,
                       index |-> c.index,
                       voter_reg_num_y |-> c.voter_reg_num]]
    IN Flatten([i \in DOMAIN counts |-> Match(counts[i])])

----
\* Geocode-NCSBE-Data.ipynb
\* dfVoter['addr'] = dfVoter.res_street_address.apply(lambda x: ...): the cell
\* stops with an error at a row the lambda cannot clean, dfVoter as it was
CleanAddr ==
    /\ pcJoin = "voters"
    /\ IF \A i \in DOMAIN dfVoter : CanClean(dfVoter[i].res_street_address)
       THEN /\ dfVoter' = WithAddr(dfVoter)
            /\ pcJoin' = "cleaned"
       ELSE /\ pcJoin' = "error"
            /\ UNCHANGED dfVoter
    /\ UNCHANGED <<dfAddresses, dfX, geoCsv, dfHistWake, dfWakeDems, dfVoteCount,
                   dfVoteGeo2>>
    /\ UNCHANGED rankVars
    /\ UNCHANGED geoVars

\* dfX = pd.merge(left=dfVoter, right=dfAddresses, how='left', ...)
JoinCoords ==
    /\ pcJoin = "cleaned"
    /\ dfX' = MergeLeft(dfVoter, dfAddresses)
    /\ pcJoin' = "coords"
    /\ UNCHANGED <<dfVoter, dfAddresses, geoCsv, dfHistWake, dfWakeDems, dfVoteCount,
                   dfVoteGeo2>>
    /\ UNCHANGED rankVars
    /\ UNCHANGED geoVars

\* dfX.to_csv('./data/NCSBE/ncvoter_Wake_geo.csv')
SaveGeo ==
    /\ pcJoin = "coords"
    /\ geoCsv' = dfX
    /\ pcJoin' = "saved"
    /\ UNCHANGED <<dfVoter, dfAddresses, dfX, dfHistWake, dfWakeDems, dfVoteCount,
                   dfVoteGeo2>>
    /\ UNCHANGED rankVars
    /\ UNCHANGED geoVars

\* Calculate-Voter-MECE-Rank.ipynb, the cells after the tiers
\* dfWakeDems = dfHistWake[dfHistWake.voted_party_cd == 'DEM']: a NameError
\* when the kernel holds no dfHistWake
SelectDems ==
    /\ pcJoin = "history"
    /\ IF dfHistWake.bound
       THEN /\ dfWakeDems' = SelectParty(dfHistWake.rows)
            /\ pcJoin' = "dems"
       ELSE /\ pcJoin' = "error"
            /\ UNCHANGED dfWakeDems
    /\ UNCHANGED <<dfVoter, dfAddresses, dfX, geoCsv, dfHistWake, dfVoteCount,
                   dfVoteGeo2>>
    /\ UNCHANGED rankVars
    /\ UNCHANGED geoVars

\* dfVoteCount = pd.DataFrame(dfWakeDems['voter_reg_num'].value_counts()).reset_index()
CountVotes ==
    /\ pcJoin = "dems"
    /\ dfVoteCount' \in ValueCounts(dfWakeDems)
    /\ pcJoin' = "counted"
    /\ UNCHANGED <<dfVoter, dfAddresses, dfX, geoCsv, dfHistWake, dfWakeDems,
                   dfVoteGeo2>>
    /\ UNCHANGED rankVars
    /\ UNCHANGED geoVars

\* dfVoteGeo = pd.read_csv('./data/NCSBE/ncvoter_Wake_geo.csv')
\* dfVoteGeo2 = pd.merge(dfVoteGeo, dfVoteCount, how = 'right', ...)
JoinCounts ==
    /\ pcJoin = "counted"
    /\ dfVoteGeo2' = MergeRight(geoCsv, dfVoteCount)
    /\ pcJoin' = "joined"
    /\ UNCHANGED <<dfVoter, dfAddresses, dfX, geoCsv, dfHistWake, dfWakeDems,
                   dfVoteCount>>
    /\ UNCHANGED rankVars
    /\ UNCHANGED geoVars

(***************************************************************************)
(* The notebooks at rest.                                                  *)
(***************************************************************************)
RankIdle ==
    /\ pcRank = "idle"
    /\ df = EmptyFrame
    /\ dfSubset = EmptyFrame
    /\ dfPivot = NoPivot
    /\ filters = NoFilters
    /\ MECE = <<>>
    /\ hits = <<>>
    /\ unassigned = {}

JoinIdle ==
    /\ pcJoin = "idle"
    /\ dfVoter = <<>>
    /\ dfAddresses = [a \in Addrs |-> 0]
    /\ dfX = <<>>
    /\ geoCsv = <<>>
    /\ dfHistWake = [bound |-> FALSE, rows |-> <<>>]
    /\ dfWakeDems = <<>>
    /\ dfVoteCount = <<>>
    /\ dfVoteGeo2 = <<>>

GeoIdle ==
    /\ pcGeo = "idle"
    /\ dfAll = [rows |-> 0, naAddr |-> {}, naOther |-> {}]
    /\ numRecs = 0
    /\ fromID = 0
    /\ toID = 0
    /\ address_set = NoFile
    /\ AddressesCsv = NoFile
    /\ outFile = 0
    /\ r = NoResponse
    /\ geoFiles = <<>>
    /\ dfGeo = <<>>
    /\ chunks = <<>>
    /\ tasks = <<>>

(***************************************************************************)
(* The ranking notebook from the history file on.                          *)
(***************************************************************************)
InitPipeline ==
    /\ pcRank = "read"
    /\ df = EmptyFrame
    /\ dfSubset = EmptyFrame
    /\ dfPivot = NoPivot
    /\ filters = NoFilters
    /\ MECE = <<>>
    /\ hits = <<>>
    /\ unassigned = {}
    /\ GeoIdle
    /\ JoinIdle

NextPipeline ==
    \/ HistoryRow
    \/ SubsetElections
    \/ Pivot
    \/ RenameColumns
    \/ Filters
    \/ AssignMECE
    \/ CheckUnassigned

SpecPipeline == InitPipeline /\ [][NextPipeline]_vars

(***************************************************************************)
(* The tier cells on any participation matrix of the five renamed columns. *)
(***************************************************************************)
InitTier ==
    /\ pcRank = "renamed"
    /\ df = EmptyFrame
    /\ dfSubset = EmptyFrame
    /\ \E k \in 0..MaxRows : \E d \in [1..k -> [Range(ShortNames) -> 0..MaxCount]] :
          dfPivot = [index |-> [i \in 1..k |-> i], columns |-> ShortNames, data |-> d]
    /\ filters = NoFilters
    /\ MECE = <<>>
    /\ hits = <<>>
    /\ unassigned = {}
    /\ GeoIdle
    /\ JoinIdle

NextTier ==
    \/ Filters
    \/ AssignMECE
    \/ CheckUnassigned

SpecTier == InitTier /\ [][NextTier]_vars

(***************************************************************************)
(* The geocoding notebook: file contents, NaN rows and failing requests.   *)
(***************************************************************************)
InitGeocode ==
    /\ RankIdle
    /\ JoinIdle
    /\ pcGeo = "start"
    /\ \E m \in 0..MaxGeoRecs : \E a \in SUBSET ProbeRows(m) :
       \E o \in SUBSET ProbeRows(m) :
          /\ dfAll = [rows |-> m, naAddr |-> a, naOther |-> o]
          /\ numRecs = m
    /\ fromID = 0
    /\ toID = 0
    /\ address_set = NoFile
    /\ AddressesCsv = NoFile
    /\ outFile = 0
    /\ r = NoResponse
    /\ geoFiles = <<>>
    /\ dfGeo = <<>>
    /\ chunks = <<>>
    /\ tasks = <<>>

NextGeocode ==
    \/ StartLoop
    \/ WriteAddresses
    \/ \E o \in Outcomes : Request(o)
    \/ WriteResult
    \/ UpdateCounters
    \/ ExitLoop
    \/ ReadOutput

SpecGeocode == InitGeocode /\ [][NextGeocode]_vars

(***************************************************************************)
(* The chunking loop alone: complete rows, every request answered.         *)
(***************************************************************************)
InitChunk ==
    /\ RankIdle
    /\ JoinIdle
    /\ pcGeo = "start"
    /\ \E m \in 0..MaxRecs :
          /\ dfAll = [rows |-> m, naAddr |-> {}, naOther |-> {}]
          /\ numRecs = m
    /\ fromID = 0
    /\ toID = 0
    /\ address_set = NoFile
    /\ AddressesCsv = NoFile
    /\ outFile = 0
    /\ r = NoResponse
    /\ geoFiles = <<>>
    /\ dfGeo = <<>>
    /\ chunks = <<>>
    /\ tasks = <<>>

NextChunk ==
    \/ StartLoop
    \/ WriteAddresses
    \/ Request("ok")
    \/ WriteResult
    \/ UpdateCounters
    \/ ExitLoop

SpecChunk == InitChunk /\ [][NextChunk]_vars

\* the cell runs its statements one after the other: a statement that can
\* run does run
SpecChunkFair == InitChunk /\ [][NextChunk]_vars /\ WF_vars(NextChunk)

(***************************************************************************)
(* The steps of the chunks of one run, interleaved in any order.           *)
(***************************************************************************)
InitParallel ==
    /\ RankIdle
    /\ JoinIdle
    /\ pcGeo = "parallel"
    /\ \E m \in 0..MaxGeoRecs : \E a \in SUBSET ProbeRows(m) :
       \E o \in SUBSET ProbeRows(m) :
          /\ dfAll = [rows |-> m, naAddr |-> a, naOther |-> o]
          /\ numRecs = m
          /\ tasks = NewTasks(m)
    /\ fromID = 0
    /\ toID = fromID + ChunkSize
    /\ address_set = NoFile
    /\ AddressesCsv = NoFile
    /\ outFile = 0
    /\ r = NoResponse
    /\ geoFiles = <<>>
    /\ dfGeo = <<>>
    /\ chunks = <<>>

NextParallel ==
    \/ \E k \in DOMAIN tasks : TaskWriteAddresses(k)
    \/ \E k \in DOMAIN tasks : \E o \in Outcomes : TaskRequest(k, o)
    \/ \E k \in DOMAIN tasks : TaskWriteResult(k)

SpecParallel == InitParallel /\ [][NextParallel]_vars

(***************************************************************************)
(* Geocode-NCSBE-Data.ipynb: the voter file and the address points as      *)
(* read, then cleaned, joined and saved.                                   *)
(***************************************************************************)
VoterFrames ==
    UNION {[1..n -> [voter_reg_num : Ids, res_street_address : Streets]] :
              n \in 0..MaxVoterRows}

AddressFrames == [Addrs -> 0..MaxPoints]

InitCoords ==
    /\ RankIdle
    /\ GeoIdle
    /\ pcJoin = "voters"
    /\ dfVoter \in VoterFrames
    /\ dfAddresses \in AddressFrames
    /\ dfX = <<>>
    /\ geoCsv = <<>>
    /\ dfHistWake = [bound |-> FALSE, rows |-> <<>>]
    /\ dfWakeDems = <<>>
    /\ dfVoteCount = <<>>
    /\ dfVoteGeo2 = <<>>

NextCoords ==
    \/ CleanAddr
    \/ JoinCoords
    \/ SaveGeo

SpecCoords == InitCoords /\ [][NextCoords]_vars

(***************************************************************************)
(* The cells of the ranking notebook that join the tally to the geocoded   *)
(* voters.  ncvoter_Wake_geo.csv is a file the geocoding notebook above    *)
(* can have saved.  dfHistWake is what the kernel holds: the notebook has  *)
(* no statement that binds it (its read is a comment), a kernel in which   *)
(* the read has run holds the history rows.                                *)
(***************************************************************************)
GeoFiles ==
    {MergeLeft(WithAddr(v), a) :
        v \in {x \in VoterFrames :
                  \A i \in DOMAIN x : CanClean(x[i].res_street_address)},
        a \in AddressFrames}

HistFrames ==
    {[bound |-> FALSE, rows |-> <<>>]} \cup
    {[bound |-> TRUE, rows |-> h] :
        h \in UNION {[1..n -> [voter_reg_num : Ids, voted_party_cd : Parties]] :
                        n \in 0..MaxHistRows}}

InitJoin ==
    /\ RankIdle
    /\ GeoIdle
    /\ pcJoin = "history"
    /\ dfVoter = <<>>
    /\ dfAddresses = [a \in Addrs |-> 0]
    /\ dfX = <<>>
    /\ geoCsv \in GeoFiles
    /\ dfHistWake \in HistFrames
    /\ dfWakeDems = <<>>
    /\ dfVoteCount = <<>>
    /\ dfVoteGeo2 = <<>>

NextJoin ==
    \/ SelectDems
    \/ CountVotes
    \/ JoinCounts

SpecJoin == InitJoin /\ [][NextJoin]_vars

(***************************************************************************)
(* Properties of the ranking notebook.                                     *)
(***************************************************************************)
Tiered == pcRank \in {"assigned", "checked"}

Pivoted == pcRank \in {"pivoted", "renamed", "filtered", "assigned", "checked", "error"}

\* the name of the column of election label l in the current dfPivot
ColName(l) == IF pcRank = "pivoted" THEN l ELSE RenameMap(l)

HasTracked(v) == \E l \in Range(elections) : df[<<v, l>>] > 0

\* C1: after the tier assignment, every row of the matrix has been written by
\* exactly one of the five masked assignments and holds a tier in 1..5; the
\* check for rows still at -1 shows none.
C1_ExactlyOneTier ==
    /\ Tiered =>
          /\ DOMAIN MECE = Rows(dfPivot)
          /\ \A v \in Rows(dfPivot) : MECE[v] \in 1..5 /\ hits[v] = 1
    /\ pcRank = "checked" => unassigned = {}

\* a row holding a count above 1 has been tiered and checked
C1_Witness ==
    /\ pcRank = "checked"
    /\ \E v \in Rows(dfPivot) :
          /\ \E c \in Range(ShortNames) : dfPivot.data[v][c] > 1
          /\ \E c \in Range(ShortNames) : dfPivot.data[v][c] = 1
          /\ MECE[v] \in 1..5

\* the 1-based index of the first rule that is true of a 0/1 row
FirstRule(row) ==
    IF row["Oct17"] = 1 \/ row["Nov17"] = 1 THEN 1
    ELSE IF row["Nov18"] = 1 THEN 2
    ELSE IF row["Nov16"] = 1 THEN 3
    ELSE IF row["Nov12"] = 1 THEN 4
    ELSE 5

ZeroOne(row) == \A c \in Range(ShortNames) : row[c] \in {0, 1}

Row01110 == [c \in Range(ShortNames) |-> IF c \in {"Nov12", "Nov16", "Nov18"} THEN 1 ELSE 0]

\* C2: a row whose five cells are 0 or 1 gets the index of the first true rule
\* in the order Oct17/Nov17, Nov18, Nov16, Nov12, none; the row
\* (Oct17=0, Nov17=0, Nov12=1, Nov16=1, Nov18=1) gets tier 2.
C2_FirstMatch ==
    Tiered =>
       \A v \in Rows(dfPivot) :
          /\ ZeroOne(dfPivot.data[v]) => MECE[v] = FirstRule(dfPivot.data[v])
          /\ dfPivot.data[v] = Row01110 => MECE[v] = 2

\* the row (Oct17=0, Nov17=0, Nov12=1, Nov16=1, Nov18=1) has been tiered
C2_Witness ==
    /\ Tiered
    /\ \E v \in Rows(dfPivot) : dfPivot.data[v] = Row01110 /\ MECE[v] = 2

\* C3: the cell of voter v and tracked election e is 1 iff the history holds at
\* least one row (v, e), and 0 otherwise.
C3_CellIsPresence ==
    Pivoted =>
       \A v \in Rows(dfPivot) : \A l \in Range(elections) :
          ColName(l) \in Range(dfPivot.columns) =>
             dfPivot.data[v][ColName(l)] = (IF df[<<v, l>>] > 0 THEN 1 ELSE 0)

\* C4: tier 5 goes only to voters with no row of a tracked election; a voter
\* with at least one such row gets a tier in 1..4.
C4_Tier5OnlyWithoutHistory ==
    Tiered =>
       \A v \in Voters :
          /\ (v \in DOMAIN MECE /\ MECE[v] = 5) => ~HasTracked(v)
          /\ HasTracked(v) => (v \in DOMAIN MECE /\ MECE[v] \in 1..4)

NoDuplicates(s) == \A i, j \in DOMAIN s : s[i] = s[j] => i = j

\* C5: the matrix has exactly one row for each voter with a row of a tracked
\* election and none for any other voter; its columns are tracked elections
\* and each cell is decided by the rows of that voter and that election alone.
C5_RowsAreTrackedVoters ==
    Pivoted =>
       /\ NoDuplicates(dfPivot.index)
       /\ Rows(dfPivot) = {v \in Voters : HasTracked(v)}
       /\ DOMAIN dfPivot.data = Rows(dfPivot)
       /\ Range(dfPivot.columns) \subseteq {ColName(l) : l \in Range(elections)}
       /\ \A v \in Rows(dfPivot) : \A l \in Range(elections) :
             ColName(l) \in Range(dfPivot.columns) =>
                dfPivot.data[v][ColName(l)] = df[<<v, l>>]

\* the history holds a voter whose only rows are of the untracked election,
\* next to a voter of a tracked one, and the matrix is built
C5_Witness ==
    /\ Pivoted
    /\ Rows(dfPivot) # {}
    /\ \E v \in Voters : df[<<v, "11/04/2014">>] > 0 /\ ~HasTracked(v)
    /\ \E v \in Rows(dfPivot) : df[<<v, "11/04/2014">>] > 0

(***************************************************************************)
(* Properties of the geocoding notebook.                                   *)
(***************************************************************************)
LoopDone == pcGeo \in {"done", "read", "readfail"}

LoopEnded == LoopDone \/ pcGeo = "aborted"

CeilDiv(a, b) == (a + b - 1) \div b

\* the rows of dfAll that fall in the range of chunk c
ChunkRows(c) == Min(c.to, numRecs) - Min(c.from, numRecs)

\* C6: the loop makes ceil(M/1000) chunks, none of more than 1000 rows; for
\* M = 12345 it makes 13 chunks and the last holds 345 rows.
C6_ChunkCountAndSize ==
    /\ \A i \in DOMAIN chunks : ChunkRows(chunks[i]) <= ChunkSize
    /\ LoopDone => Len(chunks) = CeilDiv(numRecs, ChunkSize)
    /\ (LoopDone /\ numRecs = 12345) =>
          Len(chunks) = 13 /\ ChunkRows(chunks[Len(chunks)]) = 345

\* the indices at which a gap or an overlap of the ranges would show
EdgeRows ==
    {x \in {0, numRecs - 1}
           \cup UNION {{chunks[i].from - 1, chunks[i].from, chunks[i].to - 1, chunks[i].to}
                       : i \in DOMAIN chunks} : 0 <= x /\ x < numRecs}

Covering(x) == {i \in DOMAIN chunks : chunks[i].from <= x /\ x < chunks[i].to}

\* C7: the ranges [fromID, toID) of successive iterations start at 0, each is
\* non-empty and begins where the one before ends, and when the loop is done
\* every index of [0, M) lies in exactly one of them.
C7_ContiguousCover ==
    /\ chunks # <<>> => chunks[1].from = 0
    /\ \A i \in DOMAIN chunks :
          /\ chunks[i].from < chunks[i].to
          /\ i > 1 => chunks[i].from = chunks[i - 1].to
          /\ \A j \in DOMAIN chunks : i < j => chunks[i].to <= chunks[j].from
    /\ LoopDone =>
          /\ numRecs > 0 => (chunks # <<>> /\ chunks[Len(chunks)].to >= numRecs)
          /\ \A x \in EdgeRows : Cardinality(Covering(x)) = 1

\* the loop is done after three iterations
C7_Witness ==
    /\ LoopDone
    /\ Len(chunks) = 3
    /\ numRecs > chunks[3].from

Failed(c) == c.outcome \in {"bad", "raise"}

\* C8: when the request of a chunk fails, the loop still submits every later
\* chunk up to the last row, and the run ends without being aborted.
C8_FailureDoesNotAbort ==
    (LoopEnded /\ \E i \in DOMAIN chunks : Failed(chunks[i])) =>
       /\ pcGeo # "aborted"
       /\ chunks[Len(chunks)].to >= numRecs

RECURSIVE Embeds(_, _)
\* the elements of a occur in b, in the order of a
Embeds(a, b) ==
    IF a = <<>> THEN TRUE
    ELSE IF b = <<>> THEN FALSE
    ELSE IF Head(a) = Head(b) THEN Embeds(Tail(a), Tail(b))
    ELSE Embeds(a, Tail(b))

OkChunk(c) == c.outcome = "ok"

\* the responses of the successfully geocoded chunks, in chunk order
OkResponses ==
    LET ok == SelectSeq(chunks, OkChunk)
    IN [i \in DOMAIN ok |-> [status |-> "ok", rows |-> ok[i].sent]]

\* C9: once the loop is done and the output is read, the combined relation
\* holds the response rows of every successfully geocoded chunk, in chunk
\* order.
C9_OutputHoldsEveryChunk ==
    pcGeo = "read" => Embeds(OkResponses, dfGeo)

\* C10: the file sent for a chunk holds exactly the rows of the chunk's range
\* that have no NaN in a submitted column.
C10_SentRowsAreComplete ==
    pcGeo \in {"write", "aborted"} =>
       LET c == chunks[Len(chunks)]
       IN \A x \in 0..(numRecs - 1) :
             InFile(c.sent, x) <=>
                (c.from <= x /\ x < c.to /\ x \notin dfAll.naAddr)

\* the second chunk has been sent without its row that lacks an address
\* column and with another row; the first was sent with a row that lacks only
\* a column that is not submitted
C10_Witness ==
    /\ pcGeo = "write"
    /\ Len(chunks) = 2
    /\ \E x \in dfAll.naAddr : chunks[2].from <= x /\ ~InFile(chunks[2].sent, x)
    /\ \E x \in 0..(numRecs - 1) : InFile(chunks[2].sent, x)
    /\ \E x \in dfAll.naOther \ dfAll.naAddr : InFile(chunks[1].sent, x)

(***************************************************************************)
(* Properties of the join.                                                 *)
(***************************************************************************)
Joined == pcJoin = "joined"

\* the voters of the tally and of the geocoded file
Tallied == {dfWakeDems[i].voter_reg_num : i \in DOMAIN dfWakeDems}

Geocoded == {geoCsv[i].voter_reg_num : i \in DOMAIN geoCsv}

UniqueGeo == \A i, j \in DOMAIN geoCsv :
                geoCsv[i].voter_reg_num = geoCsv[j].voter_reg_num => i = j

OutRows(v) == {i \in DOMAIN dfVoteGeo2 : dfVoteGeo2[i].index = v}

NullGeo(row) == row.voter_reg_num_x = {} /\ row.point = {}

\* C11: with unique voter ids on both sides the join has exactly one row for
\* each tallied voter and none for any other voter; a tallied voter that is
\* not in the geocoded file has NaN in the geocode fields.  A tally of
\* {1, 2, 3} and geocoded voters {1, 3} give 3 rows, the one of 2 with NaN.
C11_RightJoinKeepsTally ==
    (Joined /\ UniqueGeo) =>
       /\ \A v \in Tallied : Cardinality(OutRows(v)) = 1
       /\ \A i \in DOMAIN dfVoteGeo2 :
             /\ dfVoteGeo2[i].index \in Tallied
             /\ dfVoteGeo2[i].index \notin Geocoded => NullGeo(dfVoteGeo2[i])
             /\ dfVoteGeo2[i].index \in Geocoded =>
                   dfVoteGeo2[i].voter_reg_num_x = {dfVoteGeo2[i].index}
       /\ (Tallied = {1, 2, 3} /\ Geocoded = {1, 3}) =>
             /\ Len(dfVoteGeo2) = 3
             /\ \A i \in OutRows(2) : NullGeo(dfVoteGeo2[i])

\* the tally {1, 2, 3} has been joined to geocoded voters {1, 3}, both with
\* coordinates
C11_Witness ==
    /\ Joined
    /\ UniqueGeo
    /\ Tallied = {1, 2, 3}
    /\ Geocoded = {1, 3}
    /\ Len(dfVoteGeo2) = 3
    /\ \A i \in OutRows(1) \cup OutRows(3) : dfVoteGeo2[i].point # {}

\* the last row of voter v in the geocoded file
LastGeo(v) ==
    geoCsv[CHOOSE i \in DOMAIN geoCsv :
              /\ geoCsv[i].voter_reg_num = v
              /\ \A j \in DOMAIN geoCsv : geoCsv[j].voter_reg_num = v => j <= i]

\* C12: also when a voter id occurs more than once in the geocoded file, the
\* join has exactly one row for each tallied voter, made from the last of the
\* voter's geocoded rows, and as many rows as there are tallied voters.
C12_OneRowPerTalliedVoter ==
    Joined =>
       /\ Len(dfVoteGeo2) = Cardinality(Tallied)
       /\ \A v \in Tallied :
             /\ Cardinality(OutRows(v)) = 1
             /\ v \in Geocoded =>
                   \A i \in OutRows(v) : dfVoteGeo2[i].point = LastGeo(v).point

(***************************************************************************)
(* Properties of interleaved chunks.                                       *)
(***************************************************************************)
\* C13: in any interleaving of the steps of the chunks, the file a chunk
\* submits holds rows of that chunk only, and the result of a finished chunk
\* is in a file of its own.
C13_ChunksShareNothing ==
    \A k \in DOMAIN tasks :
       /\ tasks[k].outcome # "pending" =>
             \A x \in 0..(numRecs - 1) :
                InFile(tasks[k].sent, x) => InFile(tasks[k].address_set, x)
       /\ tasks[k].pc = "done" =>
             /\ tasks[k].outFile \in DOMAIN geoFiles
             /\ geoFiles[tasks[k].outFile] = tasks[k].r
             /\ \A j \in DOMAIN tasks :
                   (j # k /\ tasks[j].pc = "done") => tasks[j].outFile # tasks[k].outFile

(***************************************************************************)
(* Termination of the chunking loop.                                       *)
(***************************************************************************)
\* C14: for every record count, when every geocoder call returns, the loop
\* ends with fromID >= numRecs, fromID grows in every iteration, and for
\* numRecs = 0 the body never runs and nothing is submitted.
C14_LoopTerminates ==
    /\ <>(pcGeo = "done" /\ fromID >= numRecs)
    /\ [][pcGeo = "advance" => fromID' > fromID]_vars
    /\ [](numRecs = 0 => /\ pcGeo \in {"start", "loop", "done"}
                         /\ chunks = <<>>
                         /\ AddressesCsv = NoFile
                         /\ geoFiles = <<>>)

C14_Witness ==
    /\ pcGeo = "done"
    /\ fromID >= numRecs
    /\ Len(chunks) = 2
    /\ \A i \in 1..Len(chunks) : chunks[i].outcome = "ok"

====
